---- MODULE Spec2Model ----
(***************************************************************************)
(* Model of the schedview stage pipeline (collect -> compute -> plot ->     *)
(* dashboard) as documented and demonstrated in the repository:            *)
(*   - SimpleSampleDashboard        (docs/architecture.rst)                 *)
(*   - make_visit_map                (docs/examples.rst)                    *)
(*   - make_sim_archive_dir, transfer_archive_dir, evening_local_date       *)
(*                                   (sim archive notebook)                 *)
(*   - Prenight subclasses with an extra tab (custom prenight notebook)     *)
(*   - the prenight dashboard's file inputs (docs/usage.rst)                *)
(* Each subsystem has its own specification; the variables of the other     *)
(* subsystems are parked at a fixed value while it runs.                    *)
(***************************************************************************)
EXTENDS Integers, Sequences, FiniteSets, TLC

VARIABLES
    \* ---- SimpleSampleDashboard
    orbit_filename,   \* param: selected orbit file, or None
    start_mjd,        \* param
    end_mjd,          \* param
    orbits,           \* param: table read from a file, NoData when unset
    positions,        \* param: computed positions, NoData when unset
    figure,           \* what the position pane shows, NoData when nothing
    app_made,         \* make_app has built the panes
    pending,          \* methods still to be invoked for the current change
    log,              \* events since the last user change or make_app call
    \* ---- make_visit_map
    vm_args,          \* the call's arguments
    vm_pc,            \* index of the next statement group in VmSteps
    vm_day_obs,       \* local: day_obs
    vm_visits,        \* local: visits
    vm_footprint,     \* local: footprint
    vm_conditions,    \* local: conditions
    vm_result,        \* local: result
    vm_ret,           \* the returned value, NoData until the call returns
    vm_trace,         \* the stages run so far, in order
    vm_written,       \* the files this call has opened for writing
    fs0,              \* the report files before the call
    fs,               \* the report files now
    \* ---- make_sim_archive_dir
    ms_args,          \* the call's arguments
    ms_pc,            \* the statement about to run, "done" or "raised"
    ms_files,         \* local: files, a dict kept as a sequence of entries
    ms_dir,           \* the files in data_path: name -> content
    ms_i,             \* position of the running for loop
    ms_exc,           \* what the latest library call raised, None if nothing
    \* ---- transfer_archive_dir, one execution per process
    tr_pc,            \* the statement about to run, "done" or "raised"
    tr_meta,          \* local: sim_metadata['files'], as a sequence of entries
    tr_listing,       \* found_dirs still to be looked at
    tr_seen,          \* found_dirs as walk() returned it
    tr_found,         \* local: found_ids
    tr_new_id,        \* local: new_id, 0 before it is computed
    tr_i,             \* position of the copy loop
    tr_exc,           \* what the latest call raised, None if nothing
    dest_date_exists, \* the insert-date directory exists at the destination
    dest,             \* its subdirectories: name -> names of the files in it
    \* ---- evening_local_date
    eld_mjd,          \* the two instants asked about, in 1/360 of a day
    eld_longitude,    \* the longitude argument, in degrees east
    eld_out,          \* the two dates returned, NoData before the calls
    \* ---- a Prenight subclass with one more tab
    pn_class,         \* which of the notebook's subclasses the dashboard is
    pn_visits,        \* param _visits, NoData for None
    pn_reward_df,     \* param _reward_df, NoData for None
    pn_obs_rewards,   \* param _obs_rewards, NoData for None
    pn_last,          \* the latest tab method call: its inputs and its result
    pn_plot_calls,    \* every call made to a plotting function so far
    pn_tabs,          \* what initialize_tab_contents returned, NoData before
    \* ---- the prenight dashboard's file inputs
    pd_insecure,      \* started with --insecure
    pd_data_dir,      \* the data directory configured at startup
    pd_source,        \* per kind of file: what is loaded and how it was given
    \* ---- the reward plot notebook's widgets
    rp_tier,          \* tier.value
    rp_surveys_options, \* surveys.options
    rp_surveys_value, \* surveys.value
    rp_bf_options,    \* basis_function.options
    rp_bf_value,      \* basis_function.value
    rp_pending,       \* callbacks and bound plots still to be invoked
    rp_calls,         \* the plot calls made since the latest user action
    rp_event,         \* the latest user action
    \* ---- compute_minor_planet_positions: the sample times
    cp_args,          \* start_mjd, end_mjd, time_step
    cp_samples,       \* sample_times, each as <<numerator, denominator>>
    cp_done,          \* the function has been called
    cp_orbits,        \* minor_planet_orbits: the designations, in row order
    cp_rows,          \* position_data: one <<designation, sample time>> per row
    \* ---- the notebooks' cell that sets the night to simulate
    nd_notebook,      \* which notebook's cell is run
    nd_almanac,       \* observatory.almanac.sunsets, times in 1/360 day
    nd_evening_mjd,   \* evening_mjd
    nd_sim_start_mjd, \* sim_start_mjd, in 1/360 day
    nd_night_duration, \* night_duration, in 1/360 day
    nd_done           \* the cell has run

dashVars == <<orbit_filename, start_mjd, end_mjd, orbits, positions, figure,
              app_made, pending, log>>

vmVars == <<vm_args, vm_pc, vm_day_obs, vm_visits, vm_footprint, vm_conditions,
            vm_result, vm_ret, vm_trace, vm_written, fs0, fs>>

msVars == <<ms_args, ms_pc, ms_files, ms_dir, ms_i, ms_exc>>

trVars == <<tr_pc, tr_meta, tr_listing, tr_seen, tr_found, tr_new_id, tr_i, tr_exc,
            dest_date_exists, dest>>

eldVars == <<eld_mjd, eld_longitude, eld_out>>

pnVars == <<pn_class, pn_visits, pn_reward_df, pn_obs_rewards, pn_last,
            pn_plot_calls, pn_tabs>>

pdVars == <<pd_insecure, pd_data_dir, pd_source>>

rpVars == <<rp_tier, rp_surveys_options, rp_surveys_value, rp_bf_options,
            rp_bf_value, rp_pending, rp_calls, rp_event>>

cpVars == <<cp_args, cp_samples, cp_done, cp_orbits, cp_rows>>

ndVars == <<nd_notebook, nd_almanac, nd_evening_mjd, nd_sim_start_mjd,
            nd_night_duration, nd_done>>

vars == <<dashVars, vmVars, msVars, trVars, eldVars, pnVars, pdVars, rpVars, cpVars,
          ndVars>>

\* Python's None for a string valued field, and for a tuple valued field.
None == "None"
NoData == <<>>

(***************************************************************************)
(* SimpleSampleDashboard                                                   *)
(***************************************************************************)

DefaultOrbitFile == "mpcorb_sample_big.dat"
DefaultStartMjd == 60200
DefaultEndMjd == 60565
DashTimeStep == 28

\* The files the FileSelector's glob can offer, and the values a user types.
OrbitFiles == {DefaultOrbitFile, "mpcorb_other.dat"}
MjdChoices == {DefaultStartMjd, 60228, DefaultEndMjd}

\* The opaque collaborators: each result records exactly what it was made of.
read_minor_planet_orbits(file_name) == <<"orbits", file_name>>
compute_minor_planet_positions(o, s, e, time_step) == <<"positions", o, s, e, time_step>>
map_minor_planet_positions(p) == <<"figure", p>>

\* A class whose update_positions forgot to list end_mjd.
Depends_without_end_mjd(m) ==
    CASE m = "update_orbits" -> {"orbit_filename"}
      [] m = "update_positions" -> {"orbits", "start_mjd"}
      [] m = "make_position_figure" -> {"positions"}

\* A class whose update_positions is not wired to orbits.
Depends_without_orbits(m) ==
    CASE m = "update_orbits" -> {"orbit_filename"}
      [] m = "update_positions" -> {"start_mjd", "end_mjd"}
      [] m = "make_position_figure" -> {"positions"}

\* A class whose update_positions forgot to list start_mjd.
Depends_without_start_mjd(m) ==
    CASE m = "update_orbits" -> {"orbit_filename"}
      [] m = "update_positions" -> {"orbits", "end_mjd"}
      [] m = "make_position_figure" -> {"positions"}

\* @param.depends(...) of each method: the parameters it is wired to.
Depends(m) ==
    CASE m = "update_orbits" -> {"orbit_filename"}
      [] m = "update_positions" -> {"orbits", "start_mjd", "end_mjd"}
      [] m = "make_position_figure" -> {"positions"}

\* A class whose update_positions was declared without watch=True.
WatchMethods_only_update_orbits == <<"update_orbits">>

\* The methods declared with watch=True, in class order.
WatchMethods == <<"update_orbits", "update_positions">>

IsWatcherOf(p, m) == p \in Depends(m)

\* What a change of parameter p invokes: the watch=True methods wired to it,
\* and, once the app's ParamMethod pane exists, the pane's method.
Triggered(p) ==
    SelectSeq(WatchMethods, LAMBDA m: IsWatcherOf(p, m))
    \o (IF app_made /\ IsWatcherOf(p, "make_position_figure")
        THEN <<"make_position_figure">> ELSE <<>>)

DashStart ==
    /\ orbit_filename \in {DefaultOrbitFile, None}
    /\ start_mjd = DefaultStartMjd
    /\ end_mjd = DefaultEndMjd
    /\ orbits = NoData
    /\ positions = NoData
    /\ figure = NoData
    /\ app_made = FALSE
    /\ pending = <<>>
    /\ log = <<>>

\* The dashboard's variables while another subsystem is checked.
DashParked ==
    /\ orbit_filename = None
    /\ start_mjd = 0
    /\ end_mjd = 0
    /\ orbits = NoData
    /\ positions = NoData
    /\ figure = NoData
    /\ app_made = FALSE
    /\ pending = <<>>
    /\ log = <<>>

\* The user (or a caller) changes orbit_filename.
SetOrbitFilename ==
    /\ pending = <<>>
    /\ \E f \in OrbitFiles \cup {None} :
          /\ f # orbit_filename
          /\ orbit_filename' = f
    /\ pending' = Triggered("orbit_filename")
    /\ log' = <<"set:orbit_filename">>
    /\ UNCHANGED <<start_mjd, end_mjd, orbits, positions, figure, app_made>>

SetStartMjd ==
    /\ pending = <<>>
    /\ \E v \in MjdChoices :
          /\ v # start_mjd
          /\ start_mjd' = v
    /\ pending' = Triggered("start_mjd")
    /\ log' = <<"set:start_mjd">>
    /\ UNCHANGED <<orbit_filename, end_mjd, orbits, positions, figure, app_made>>

SetEndMjd ==
    /\ pending = <<>>
    /\ \E v \in MjdChoices :
          /\ v # end_mjd
          /\ end_mjd' = v
    /\ pending' = Triggered("end_mjd")
    /\ log' = <<"set:end_mjd">>
    /\ UNCHANGED <<orbit_filename, start_mjd, orbits, positions, figure, app_made>>

\* An update_orbits that reads whatever orbit_filename holds.
LoadsOrbits_always(file_name) == TRUE

\* update_orbits goes past its first test: orbit_filename is not None.
LoadsOrbits(file_name) == file_name # None

\* update_orbits: returns early on None, else reads and assigns orbits; the
\* assignment invokes what is wired to orbits before anything else pending.
update_orbits ==
    /\ pending # <<>>
    /\ Head(pending) = "update_orbits"
    /\ IF ~LoadsOrbits(orbit_filename)
       THEN /\ log' = Append(log, "run:update_orbits")
            /\ pending' = Tail(pending)
            /\ UNCHANGED orbits
       ELSE /\ orbits' = read_minor_planet_orbits(orbit_filename)
            /\ log' = log \o <<"run:update_orbits", "assign:orbits">>
            /\ pending' = Triggered("orbits") \o Tail(pending)
    /\ UNCHANGED <<orbit_filename, start_mjd, end_mjd, positions, figure, app_made>>

update_positions ==
    /\ pending # <<>>
    /\ Head(pending) = "update_positions"
    /\ IF orbits = NoData
       THEN /\ log' = Append(log, "run:update_positions")
            /\ pending' = Tail(pending)
            /\ UNCHANGED positions
       ELSE /\ positions' = compute_minor_planet_positions(orbits, start_mjd, end_mjd, DashTimeStep)
            /\ log' = log \o <<"run:update_positions", "assign:positions">>
            /\ pending' = Triggered("positions") \o Tail(pending)
    /\ UNCHANGED <<orbit_filename, start_mjd, end_mjd, orbits, figure, app_made>>

\* A make_position_figure without its test of positions.
PositionFigure_maps_anything == map_minor_planet_positions(positions)

\* make_position_figure, as the ParamMethod pane evaluates it.
PositionFigure == IF positions = NoData THEN NoData ELSE map_minor_planet_positions(positions)

FigureEvents ==
    IF positions = NoData THEN <<"run:make_position_figure">>
    ELSE <<"run:make_position_figure", "call:map_minor_planet_positions">>

make_position_figure ==
    /\ pending # <<>>
    /\ Head(pending) = "make_position_figure"
    /\ figure' = PositionFigure
    /\ log' = log \o FigureEvents
    /\ pending' = Tail(pending)
    /\ UNCHANGED <<orbit_filename, start_mjd, end_mjd, orbits, positions, app_made>>

\* make_app: calls update_orbits itself, then builds the row of panes.
make_app ==
    /\ pending = <<>>
    /\ ~app_made
    /\ pending' = <<"update_orbits", "build_app">>
    /\ log' = <<"call:make_app">>
    /\ UNCHANGED <<orbit_filename, start_mjd, end_mjd, orbits, positions, figure, app_made>>

\* pn.Row(pn.Param(...), pn.param.ParamMethod(self.make_position_figure)):
\* creating the pane evaluates the method once.
build_app ==
    /\ pending # <<>>
    /\ Head(pending) = "build_app"
    /\ app_made' = TRUE
    /\ figure' = PositionFigure
    /\ log' = log \o FigureEvents
    /\ pending' = Tail(pending)
    /\ UNCHANGED <<orbit_filename, start_mjd, end_mjd, orbits, positions>>

DashStep ==
    \/ SetOrbitFilename
    \/ SetStartMjd
    \/ SetEndMjd
    \/ update_orbits
    \/ update_positions
    \/ make_position_figure
    \/ make_app
    \/ build_app


InSeq(x, s) == \E i \in 1..Len(s) : s[i] = x
IsPrefix(s, t) == Len(s) <= Len(t) /\ \A i \in 1..Len(s) : s[i] = t[i]

\* The stage has run for the current change, or is still queued to run.
RunOrQueued(stage, event) == InSeq(event, log) \/ InSeq(stage, pending)

\* C1: every change of a user-facing parameter re-runs the stage wired to
\* it: after a change of orbit_filename update_orbits has run or is about to,
\* after a change of start_mjd or end_mjd update_positions has run or is
\* about to, and once nothing is pending the stage has run.
C1_ChangeRerunsStage ==
    log # <<>> =>
        /\ log[1] = "set:orbit_filename" => RunOrQueued("update_orbits", "run:update_orbits")
        /\ log[1] \in {"set:start_mjd", "set:end_mjd"} =>
               RunOrQueued("update_positions", "run:update_positions")

C1_Witness ==
    /\ pending = <<>>
    /\ log # <<>>
    /\ log[1] = "set:end_mjd"
    /\ InSeq("run:update_positions", log)
    /\ positions # NoData
    /\ positions[4] = end_mjd

\* The events of a completed change of orbit_filename to a file.
OrbitChangeEvents ==
    <<"set:orbit_filename", "run:update_orbits", "assign:orbits",
      "run:update_positions", "assign:positions">>
    \o (IF app_made
        THEN <<"run:make_position_figure", "call:map_minor_planet_positions">>
        ELSE <<>>)

\* C2: after orbit_filename changes to a file the stages run in dependency
\* order: update_orbits assigns orbits, then update_positions runs and
\* assigns positions, and only then is the figure regenerated; at no moment
\* have the events left that order, and when nothing is pending all of them
\* have happened.
C2_DependencyOrder ==
    (log # <<>> /\ log[1] = "set:orbit_filename" /\ orbit_filename # None) =>
        /\ IsPrefix(log, OrbitChangeEvents)
        /\ pending = <<>> => log = OrbitChangeEvents

C2_Witness ==
    /\ pending = <<>>
    /\ app_made
    /\ log = OrbitChangeEvents
    /\ orbit_filename # None
    /\ orbits = read_minor_planet_orbits(orbit_filename)
    /\ figure = map_minor_planet_positions(positions)

(***************************************************************************)
(* make_visit_map (schedview/examples/visitmap.py)                         *)
(***************************************************************************)

DefaultNside == 16
DocumentedDefaultNside == 8

IsoDates == {"2024-10-05", "2024-10-06"}
VisitSources == {"lsstcomcam", "4.3.1"}
NsideChoices == {8, 16, 32}
ReportFiles == {"a.html", "b.html"}
DefaultMapClasses == <<"ArmillarySphere", "Planisphere">>

\* The opaque collaborators: each result records exactly what it was made of.
DayObs_from_date(iso_date) == <<"DayObs", iso_date>>
read_visits(day_obs, visit_source) == <<"visits", day_obs, visit_source>>
get_footprint(nside) == <<"footprint", nside>>
return_conditions(nside, day_obs) == <<"conditions", nside, day_obs>>
add_coords_tuple(visits) == <<"coords", visits>>
plot_visit_skymaps(visits, footprint, conditions, map_classes) ==
    <<"skymaps", visits, footprint, conditions, map_classes>>
file_html(result) == <<"html", result>>

\* The contents a report file can have before the call: absent or older text.
Absent == <<>>
OldContent == <<"old">>

\* The value the parameter nside is bound to in the body.
BoundNside(args) == IF args.nside_given THEN args.nside ELSE DefaultNside

\* A body that plots before the compute section.
VmSteps_plot_before_compute ==
    <<"parameters", "collect_visits", "collect_footprint", "plot",
      "compute_conditions", "compute_coords", "report", "return">>

\* The statements of the body, in program order.
VmSteps ==
    <<"parameters", "collect_visits", "collect_footprint", "compute_conditions",
      "compute_coords", "plot", "report", "return">>

VmAt(step) == vm_pc <= Len(VmSteps) /\ VmSteps[vm_pc] = step

\* A body that writes the report whatever the argument.
WritesReport_always(report) == TRUE

\* if report is not None:
WritesReport(report) == report # None

VmStart ==
    /\ vm_args \in [iso_date : IsoDates, visit_source : VisitSources,
                    nside_given : BOOLEAN, nside : NsideChoices,
                    report : ReportFiles \cup {None}]
    /\ (~vm_args.nside_given => vm_args.nside = DefaultNside)
    /\ vm_pc = 1
    /\ vm_day_obs = NoData
    /\ vm_visits = NoData
    /\ vm_footprint = NoData
    /\ vm_conditions = NoData
    /\ vm_result = NoData
    /\ vm_ret = NoData
    /\ vm_trace = <<>>
    /\ vm_written = {}
    /\ fs0 \in [ReportFiles -> {Absent, OldContent}]
    /\ fs = fs0

VmParked ==
    /\ vm_args = [iso_date |-> None, visit_source |-> None, nside_given |-> FALSE,
                  nside |-> 0, report |-> None]
    /\ vm_pc = 0
    /\ vm_day_obs = NoData
    /\ vm_visits = NoData
    /\ vm_footprint = NoData
    /\ vm_conditions = NoData
    /\ vm_result = NoData
    /\ vm_ret = NoData
    /\ vm_trace = <<>>
    /\ vm_written = {}
    /\ fs0 = <<>>
    /\ fs = <<>>

\* # Parameters
vm_parameters ==
    /\ VmAt("parameters")
    /\ vm_day_obs' = DayObs_from_date(vm_args.iso_date)
    /\ vm_pc' = vm_pc + 1
    /\ vm_trace' = Append(vm_trace, "parameters")
    /\ UNCHANGED <<vm_args, vm_visits, vm_footprint, vm_conditions, vm_result,
                   vm_ret, vm_written, fs0, fs>>

\* # Collect
vm_collect_visits ==
    /\ VmAt("collect_visits")
    /\ vm_visits' = read_visits(vm_day_obs, vm_args.visit_source)
    /\ vm_pc' = vm_pc + 1
    /\ vm_trace' = Append(vm_trace, "collect")
    /\ UNCHANGED <<vm_args, vm_day_obs, vm_footprint, vm_conditions, vm_result,
                   vm_ret, vm_written, fs0, fs>>

vm_collect_footprint ==
    /\ VmAt("collect_footprint")
    /\ vm_footprint' = get_footprint(BoundNside(vm_args))
    /\ vm_pc' = vm_pc + 1
    /\ vm_trace' = Append(vm_trace, "collect")
    /\ UNCHANGED <<vm_args, vm_day_obs, vm_visits, vm_conditions, vm_result,
                   vm_ret, vm_written, fs0, fs>>

\* # Compute
vm_compute_conditions ==
    /\ VmAt("compute_conditions")
    /\ vm_conditions' = return_conditions(BoundNside(vm_args), vm_day_obs)
    /\ vm_pc' = vm_pc + 1
    /\ vm_trace' = Append(vm_trace, "compute")
    /\ UNCHANGED <<vm_args, vm_day_obs, vm_visits, vm_footprint, vm_result,
                   vm_ret, vm_written, fs0, fs>>

vm_compute_coords ==
    /\ VmAt("compute_coords")
    /\ vm_visits' = add_coords_tuple(vm_visits)
    /\ vm_pc' = vm_pc + 1
    /\ vm_trace' = Append(vm_trace, "compute")
    /\ UNCHANGED <<vm_args, vm_day_obs, vm_footprint, vm_conditions, vm_result,
                   vm_ret, vm_written, fs0, fs>>

\* # Plot
vm_plot ==
    /\ VmAt("plot")
    /\ vm_result' = plot_visit_skymaps(vm_visits, vm_footprint, vm_conditions,
                                       DefaultMapClasses)
    /\ vm_pc' = vm_pc + 1
    /\ vm_trace' = Append(vm_trace, "plot")
    /\ UNCHANGED <<vm_args, vm_day_obs, vm_visits, vm_footprint, vm_conditions,
                   vm_ret, vm_written, fs0, fs>>

\* # Report
vm_report ==
    /\ VmAt("report")
    /\ IF WritesReport(vm_args.report)
       THEN /\ fs' = [f \in DOMAIN fs |->
                        IF f = vm_args.report THEN file_html(vm_result) ELSE fs[f]]
            /\ vm_written' = vm_written \cup {vm_args.report}
       ELSE UNCHANGED <<fs, vm_written>>
    /\ vm_pc' = vm_pc + 1
    /\ vm_trace' = Append(vm_trace, "report")
    /\ UNCHANGED <<vm_args, vm_day_obs, vm_visits, vm_footprint, vm_conditions,
                   vm_result, vm_ret, fs0>>

vm_return ==
    /\ VmAt("return")
    /\ vm_ret' = vm_result
    /\ vm_pc' = vm_pc + 1
    /\ vm_trace' = Append(vm_trace, "return")
    /\ UNCHANGED <<vm_args, vm_day_obs, vm_visits, vm_footprint, vm_conditions,
                   vm_result, vm_written, fs0, fs>>

VmStep ==
    \/ vm_parameters
    \/ vm_collect_visits
    \/ vm_collect_footprint
    \/ vm_compute_conditions
    \/ vm_compute_coords
    \/ vm_plot
    \/ vm_report
    \/ vm_return

VmReturned == vm_pc = Len(VmSteps) + 1

(***************************************************************************)
(* make_sim_archive_dir (sim archive notebook)                             *)
(***************************************************************************)

\* A dict is kept as a sequence of entries in insertion order; assigning an
\* existing key replaces the entry in place, as Python does.
HasKey(dict, k) == \E i \in 1..Len(dict) : dict[i].type = k

DictSet(dict, entry) ==
    IF HasKey(dict, entry.type)
    THEN [i \in 1..Len(dict) |-> IF dict[i].type = entry.type THEN entry ELSE dict[i]]
    ELSE Append(dict, entry)

\* The files of a directory: a function from the names present to contents.
HasFile(dir, name) == name \in DOMAIN dir

WriteFile(dir, name, content) ==
    [n \in DOMAIN dir \cup {name} |-> IF n = name THEN content ELSE dir[n]]

md5(content) == <<"md5", content>>

\* in_files: file type, source file name, and whether the source file
\* already is the file of that name in data_path.
NoInFiles == <<>>
SchedulerOnly ==
    <<[type |-> "scheduler", name |-> "scheduler.pickle.xz", same |-> FALSE]>>
ArchiveFiles ==
    <<[type |-> "scheduler", name |-> "scheduler.pickle.xz", same |-> TRUE],
      [type |-> "notebook", name |-> "sim_archive.ipynb", same |-> FALSE]>>

InFilesChoices == {NoInFiles, SchedulerOnly, ArchiveFiles}

SourceContent(name) == <<"source", name>>

\* The files data_path holds before the call: the in_files that live in it.
InitialDir(in_files) ==
    LET present == {i \in 1..Len(in_files) : in_files[i].same}
    IN [n \in {in_files[i].name : i \in present} |-> SourceContent(n)]

\* What a library call can raise; a file copy onto itself always raises.
CallOutcomes == {None, "OSError"}

CopyOutcomes(item) == IF item.same THEN {"SameFileError"} ELSE CallOutcomes

\* except Exception: pass
CaughtByCopy_anything(exc) == TRUE

\* except shutil.SameFileError: pass
CaughtByCopy(exc) == exc = "SameFileError"

MsStart ==
    /\ ms_args \in [reward_df : BOOLEAN, obs_rewards : BOOLEAN,
                    in_files : InFilesChoices, data_path_given : BOOLEAN]
    /\ (\E i \in 1..Len(ms_args.in_files) : ms_args.in_files[i].same)
          => ms_args.data_path_given
    /\ ms_pc = "data_path"
    /\ ms_files = <<>>
    /\ ms_dir = InitialDir(ms_args.in_files)
    /\ ms_i = 0
    /\ ms_exc = None

MsParked ==
    /\ ms_args = [reward_df |-> FALSE, obs_rewards |-> FALSE,
                  in_files |-> NoInFiles, data_path_given |-> FALSE]
    /\ ms_pc = "parked"
    /\ ms_files = <<>>
    /\ ms_dir = <<>>
    /\ ms_i = 0
    /\ ms_exc = None

\* One library call of the body: it raises exc (the function ends there) or
\* returns, and the body goes on to next_pc with the given files and dir.
MsCall(exc, next_pc, files, dir) ==
    /\ ms_exc' = exc
    /\ IF exc # None
       THEN /\ ms_pc' = "raised"
            /\ UNCHANGED <<ms_files, ms_dir, ms_i>>
       ELSE /\ ms_pc' = next_pc
            /\ ms_files' = files
            /\ ms_dir' = dir
            /\ ms_i' = 1
    /\ UNCHANGED ms_args

\* if data_path is None: data_dir = TemporaryDirectory()
ms_data_path ==
    /\ ms_pc = "data_path"
    /\ \E exc \in (IF ms_args.data_path_given THEN {None} ELSE CallOutcomes) :
          MsCall(exc, "observations", ms_files, ms_dir)

\* A test that asks for either table only.
SavesRewards_with_either(args) == args.reward_df \/ args.obs_rewards

\* if reward_df is not None and obs_rewards is not None
SavesRewards(args) == args.reward_df /\ args.obs_rewards

\* # Save the observations
ms_observations ==
    /\ ms_pc = "observations"
    /\ \E exc \in CallOutcomes :
          MsCall(exc,
                 IF SavesRewards(ms_args) THEN "reward_df" ELSE "statistics",
                 DictSet(ms_files, [type |-> "observations", name |-> "opsim.db",
                                    md5 |-> NoData]),
                 WriteFile(ms_dir, "opsim.db", <<"opsim">>))

\* # Save the rewards: files['rewards'] and reward_df.to_hdf
ms_reward_df ==
    /\ ms_pc = "reward_df"
    /\ \E exc \in CallOutcomes :
          MsCall(exc, "obs_rewards",
                 DictSet(ms_files, [type |-> "rewards", name |-> "rewards.h5",
                                    md5 |-> NoData]),
                 WriteFile(ms_dir, "rewards.h5", <<"hdf", "reward_df">>))

\* obs_rewards.to_hdf
ms_obs_rewards ==
    /\ ms_pc = "obs_rewards"
    /\ \E exc \in CallOutcomes :
          MsCall(exc, "statistics", ms_files,
                 WriteFile(ms_dir, "rewards.h5", <<"hdf", "reward_df", "obs_rewards">>))

\* # Save basic statistics
ms_statistics ==
    /\ ms_pc = "statistics"
    /\ \E exc \in CallOutcomes :
          MsCall(exc, "copy",
                 DictSet(ms_files, [type |-> "statistics", name |-> "obs_stats.txt",
                                    md5 |-> NoData]),
                 WriteFile(ms_dir, "obs_stats.txt", <<"stats">>))

\* # Add supplied files: one turn of the loop, or its end.
ms_copy ==
    /\ ms_pc = "copy"
    /\ IF ms_i > Len(ms_args.in_files)
       THEN /\ ms_pc' = "hash"
            /\ ms_i' = 1
            /\ ms_exc' = None
            /\ UNCHANGED <<ms_args, ms_files, ms_dir>>
       ELSE LET item == ms_args.in_files[ms_i]
                entry == [type |-> item.type, name |-> item.name, md5 |-> NoData]
            IN \E exc \in CopyOutcomes(item) :
                  /\ ms_exc' = exc
                  /\ ms_files' = DictSet(ms_files, entry)
                  /\ IF exc = None
                     THEN /\ ms_dir' = WriteFile(ms_dir, item.name, SourceContent(item.name))
                          /\ ms_pc' = "copy"
                          /\ ms_i' = ms_i + 1
                     ELSE IF CaughtByCopy(exc)
                     THEN /\ ms_pc' = "copy"
                          /\ ms_i' = ms_i + 1
                          /\ UNCHANGED ms_dir
                     ELSE /\ ms_pc' = "raised"
                          /\ UNCHANGED <<ms_dir, ms_i>>
                  /\ UNCHANGED ms_args

\* A hash loop that reads the file the entry came from, not the file in
\* data_path.
HashedContent_of_source(dir, name) == SourceContent(name)

\* with open(fname, 'rb') as file_io: content = file_io.read()
HashedContent(dir, name) == dir[name]

\* # Add file hashes: one turn of the loop, or its end.
ms_hash ==
    /\ ms_pc = "hash"
    /\ IF ms_i > Len(ms_files)
       THEN /\ ms_pc' = "metadata"
            /\ ms_i' = 1
            /\ ms_exc' = None
            /\ UNCHANGED <<ms_args, ms_files, ms_dir>>
       ELSE LET entry == ms_files[ms_i]
            IN \E exc \in (IF HasFile(ms_dir, entry.name)
                           THEN CallOutcomes ELSE {"OSError"}) :
                  /\ ms_exc' = exc
                  /\ IF exc = None
                     THEN /\ ms_files' = DictSet(ms_files,
                                 [entry EXCEPT !.md5 = md5(HashedContent(ms_dir, entry.name))])
                          /\ ms_pc' = "hash"
                          /\ ms_i' = ms_i + 1
                     ELSE /\ ms_pc' = "raised"
                          /\ UNCHANGED <<ms_files, ms_i>>
                  /\ UNCHANGED <<ms_args, ms_dir>>

\* # Metadata: os.environ['USER'] can raise KeyError, the write OSError.
ms_metadata ==
    /\ ms_pc = "metadata"
    /\ \E exc \in CallOutcomes \cup {"KeyError"} :
          MsCall(exc, "done", ms_files,
                 WriteFile(ms_dir, "sim_metadata.yaml", <<"yaml", ms_files>>))

MsStep ==
    \/ ms_data_path
    \/ ms_observations
    \/ ms_reward_df
    \/ ms_obs_rewards
    \/ ms_statistics
    \/ ms_copy
    \/ ms_hash
    \/ ms_metadata

(***************************************************************************)
(* transfer_archive_dir (sim archive notebook)                             *)
(***************************************************************************)

\* The executions of transfer_archive_dir, against one base URI on one date.
Procs == {"t1", "t2"}

\* Names are sequences of characters, so that int() and f"{new_id}" are
\* the conversions they are.
DigitChars == <<"0", "1", "2", "3", "4", "5", "6", "7", "8", "9">>
Digits == {DigitChars[i] : i \in 1..Len(DigitChars)}
DigitVal(c) == (CHOOSE i \in 1..Len(DigitChars) : DigitChars[i] = c) - 1

Unsigned(str) == IF Len(str) > 0 /\ str[1] \in {"-", "+"} THEN Tail(str) ELSE str

\* int(str) succeeds: an optional sign and then one or more digits.
IsIntLiteral(str) ==
    /\ Len(Unsigned(str)) > 0
    /\ \A i \in 1..Len(Unsigned(str)) : Unsigned(str)[i] \in Digits

RECURSIVE DigitsValue(_)
DigitsValue(str) ==
    IF Len(str) = 0 THEN 0
    ELSE 10 * DigitsValue(SubSeq(str, 1, Len(str) - 1)) + DigitVal(str[Len(str)])

\* int(str), for a str that int() accepts
IntOf(str) ==
    IF Len(str) > 0 /\ str[1] = "-" THEN 0 - DigitsValue(Unsigned(str))
    ELSE DigitsValue(Unsigned(str))

RECURSIVE NatFormat(_)
NatFormat(n) ==
    IF n < 10 THEN <<DigitChars[n + 1]>>
    ELSE Append(NatFormat(n \div 10), DigitChars[(n % 10) + 1])

\* f"{new_id}"
FormatInt(n) == IF n < 0 THEN <<"-">> \o NatFormat(0 - n) ELSE NatFormat(n)

\* found_dir, with its trailing "/" left on
StripLast_keeps_all(str) == str

\* found_dir[:-1]
StripLast(str) == SubSeq(str, 1, Len(str) - 1)

RECURSIVE SetToSeq(_)
SetToSeq(S) ==
    IF S = {} THEN <<>>
    ELSE LET x == CHOOSE x \in S : TRUE IN <<x>> \o SetToSeq(S \ {x})

\* What walk() reports for the date directory: its subdirectories, each
\* name ending in "/".
FoundDirs == SetToSeq({name \o <<"/">> : name \in DOMAIN dest})

Max(S) == CHOOSE x \in S : \A y \in S : y <= x

\* A numbering that takes the largest number found.
NewId_reuses_max(found) == IF found # {} THEN Max(found) ELSE 1

\* new_id = max(found_ids) + 1 if len(found_ids)>0 else 1
NewId(found) == IF found # {} THEN Max(found) + 1 ELSE 1

\* except ValueError: pass
CaughtByParse(exc) == exc = "ValueError"

\* The subdirectories the date directory can hold before the transfers, each
\* a complete earlier archive.
NamesAtStart == {<<"1">>, <<"0", "2">>, <<"l", "o", "g">>}
EarlierArchive == {"sim_metadata.yaml", "opsim.db", "obs_stats.txt"}

\* sim_metadata['files'] as loaded, the 'metadata' entry left out.
LoadedFiles_without_metadata == ms_dir["sim_metadata.yaml"][2]

\* sim_metadata['files'] as loaded, with the 'metadata' entry added to it.
LoadedFiles ==
    DictSet(ms_dir["sim_metadata.yaml"][2],
            [type |-> "metadata", name |-> "sim_metadata.yaml", md5 |-> NoData])

TrStart ==
    /\ tr_pc = [p \in Procs |-> "read_metadata"]
    /\ tr_meta = [p \in Procs |-> <<>>]
    /\ tr_listing = [p \in Procs |-> <<>>]
    /\ tr_seen = [p \in Procs |-> <<>>]
    /\ tr_found = [p \in Procs |-> {}]
    /\ tr_new_id = [p \in Procs |-> 0]
    /\ tr_i = [p \in Procs |-> 0]
    /\ tr_exc = [p \in Procs |-> None]
    /\ \E S \in SUBSET NamesAtStart : dest = [n \in S |-> EarlierArchive]
    /\ dest_date_exists \in BOOLEAN
    /\ dest # <<>> => dest_date_exists

TrParked ==
    /\ tr_pc = [p \in Procs |-> "parked"]
    /\ tr_meta = [p \in Procs |-> <<>>]
    /\ tr_listing = [p \in Procs |-> <<>>]
    /\ tr_seen = [p \in Procs |-> <<>>]
    /\ tr_found = [p \in Procs |-> {}]
    /\ tr_new_id = [p \in Procs |-> 0]
    /\ tr_i = [p \in Procs |-> 0]
    /\ tr_exc = [p \in Procs |-> None]
    /\ dest = <<>>
    /\ dest_date_exists = FALSE

\* A library call of execution p raised exc: the function ends there.
TrRaise(p, exc) ==
    /\ tr_exc' = [tr_exc EXCEPT ![p] = exc]
    /\ tr_pc' = [tr_pc EXCEPT ![p] = "raised"]

\* ... or it returned and the body goes on to next_pc.
TrGoOn(p, next_pc) ==
    /\ tr_exc' = [tr_exc EXCEPT ![p] = None]
    /\ tr_pc' = [tr_pc EXCEPT ![p] = next_pc]

\* open(metadata_fname) and yaml.safe_load
tr_read_metadata(p) ==
    /\ tr_pc[p] = "read_metadata"
    /\ ms_pc = "done"
    /\ \E exc \in CallOutcomes :
          IF exc # None
          THEN TrRaise(p, exc) /\ UNCHANGED tr_meta
          ELSE TrGoOn(p, "date_dir") /\ tr_meta' = [tr_meta EXCEPT ![p] = LoadedFiles]
    /\ UNCHANGED <<tr_listing, tr_seen, tr_found, tr_new_id, tr_i, dest_date_exists, dest>>

\* if not insert_date_rpath.exists(): insert_date_rpath.mkdir()
tr_date_dir(p) ==
    /\ tr_pc[p] = "date_dir"
    /\ \E exc \in CallOutcomes :
          IF exc # None
          THEN TrRaise(p, exc) /\ UNCHANGED dest_date_exists
          ELSE TrGoOn(p, "walk") /\ dest_date_exists' = TRUE
    /\ UNCHANGED <<tr_meta, tr_listing, tr_seen, tr_found, tr_new_id, tr_i, dest>>

\* insert_date_rpath.walk(): the first triple it yields
tr_walk(p) ==
    /\ tr_pc[p] = "walk"
    /\ \E exc \in CallOutcomes :
          IF exc # None
          THEN TrRaise(p, exc) /\ UNCHANGED <<tr_listing, tr_seen>>
          ELSE /\ TrGoOn(p, "parse")
               /\ tr_listing' = [tr_listing EXCEPT ![p] = FoundDirs]
               /\ tr_seen' = [tr_seen EXCEPT ![p] = FoundDirs]
    /\ UNCHANGED <<tr_meta, tr_found, tr_new_id, tr_i, dest_date_exists, dest>>

\* for found_dir in found_dirs: one turn; at the end the walk goes on through
\* the subdirectories, which can raise.
tr_parse(p) ==
    /\ tr_pc[p] = "parse"
    /\ IF tr_listing[p] = <<>>
       THEN /\ \E exc \in CallOutcomes :
                  IF exc # None THEN TrRaise(p, exc) ELSE TrGoOn(p, "mkdir")
            /\ UNCHANGED <<tr_listing, tr_found>>
       ELSE LET str == StripLast(Head(tr_listing[p]))
                exc == IF IsIntLiteral(str) THEN None ELSE "ValueError"
            IN /\ tr_exc' = [tr_exc EXCEPT ![p] = exc]
               /\ IF exc = None
                  THEN /\ tr_found' = [tr_found EXCEPT ![p] = @ \cup {IntOf(str)}]
                       /\ tr_listing' = [tr_listing EXCEPT ![p] = Tail(@)]
                       /\ UNCHANGED tr_pc
                  ELSE IF CaughtByParse(exc)
                  THEN /\ tr_listing' = [tr_listing EXCEPT ![p] = Tail(@)]
                       /\ UNCHANGED <<tr_pc, tr_found>>
                  ELSE /\ tr_pc' = [tr_pc EXCEPT ![p] = "raised"]
                       /\ UNCHANGED <<tr_listing, tr_found>>
    /\ UNCHANGED <<tr_meta, tr_seen, tr_new_id, tr_i, dest_date_exists, dest>>

\* new_id, resource_rpath and resource_rpath.mkdir(), which leaves an
\* existing directory as it is.
tr_mkdir(p) ==
    /\ tr_pc[p] = "mkdir"
    /\ tr_new_id' = [tr_new_id EXCEPT ![p] = NewId(tr_found[p])]
    /\ \E exc \in CallOutcomes :
          IF exc # None
          THEN TrRaise(p, exc) /\ UNCHANGED <<dest, tr_i>>
          ELSE /\ TrGoOn(p, "copy")
               /\ tr_i' = [tr_i EXCEPT ![p] = 1]
               /\ LET name == FormatInt(NewId(tr_found[p]))
                  IN dest' = [n \in DOMAIN dest \cup {name} |->
                                IF n \in DOMAIN dest THEN dest[n] ELSE {}]
    /\ UNCHANGED <<tr_meta, tr_listing, tr_seen, tr_found, dest_date_exists>>

\* for file_type, file_info in sim_metadata['files'].items(): one turn
tr_copy(p) ==
    /\ tr_pc[p] = "copy"
    /\ IF tr_i[p] > Len(tr_meta[p])
       THEN TrGoOn(p, "done") /\ UNCHANGED <<dest, tr_i>>
       ELSE \E exc \in CallOutcomes :
               IF exc # None
               THEN TrRaise(p, exc) /\ UNCHANGED <<dest, tr_i>>
               ELSE /\ TrGoOn(p, "copy")
                    /\ tr_i' = [tr_i EXCEPT ![p] = @ + 1]
                    /\ dest' = [dest EXCEPT ![FormatInt(tr_new_id[p])] =
                                   @ \cup {tr_meta[p][tr_i[p]].name}]
    /\ UNCHANGED <<tr_meta, tr_listing, tr_seen, tr_found, tr_new_id, dest_date_exists>>

TrStep ==
    \E p \in Procs :
        \/ tr_read_metadata(p)
        \/ tr_date_dir(p)
        \/ tr_walk(p)
        \/ tr_parse(p)
        \/ tr_mkdir(p)
        \/ tr_copy(p)

(***************************************************************************)
(* evening_local_date (sim archive notebook)                               *)
(***************************************************************************)

\* Time is counted in 1/360 of a day, the time the sky takes to turn by one
\* degree, so that mjd + longitude/360 - 0.5 is exact: an mjd is ticks/360.
TicksPerDay == 360

\* The days the instants are drawn from, starting at 2024-02-28, and the times
\* of day, which include the local noons of the longitudes below.
FirstMjdDay == 60368
NumDays == 3
TimesOfDay == {0, 90, 109, 110, 179, 180, 181, 251, 252, 359}
Instants == {(FirstMjdDay + d) * TicksPerDay + t : d \in 0..(NumDays - 1), t \in TimesOfDay}
Longitudes == {-71, 0, 135, -180}

\* np.floor(mjd + longitude/360) without the half day
EveningLocalMjd_at_midnight(ticks, longitude) == (ticks + longitude) \div TicksPerDay

\* evening_local_mjd = np.floor(mjd + longitude/360 - 0.5).astype(int)
EveningLocalMjd(ticks, longitude) ==
    (ticks + longitude - TicksPerDay \div 2) \div TicksPerDay

\* Time(mjd, format='mjd').iso[:10] of a whole mjd: the civil date of the day,
\* <<year, month, day>>, by the usual days-to-civil computation.
IsoDate(mjd) ==
    LET z == (mjd - 40587) + 719468
        era == z \div 146097
        doe == z - era * 146097
        yoe == (doe - doe \div 1460 + doe \div 36524 - doe \div 146096) \div 365
        doy == doe - (365 * yoe + yoe \div 4 - yoe \div 100)
        mp == (5 * doy + 2) \div 153
        day == doy - (153 * mp + 2) \div 5 + 1
        month == IF mp < 10 THEN mp + 3 ELSE mp - 9
        year == yoe + era * 400 + (IF month <= 2 THEN 1 ELSE 0)
    IN <<year, month, day>>

evening_local_date(ticks, longitude) == IsoDate(EveningLocalMjd(ticks, longitude))

EldStart ==
    /\ eld_mjd \in Instants \X Instants
    /\ eld_longitude \in Longitudes
    /\ eld_out = NoData

EldParked ==
    /\ eld_mjd = <<0, 0>>
    /\ eld_longitude = 0
    /\ eld_out = NoData

\* opsim_metadata['simulated_dates']: the function applied to two instants
eld_call ==
    /\ eld_out = NoData
    /\ eld_out' = <<evening_local_date(eld_mjd[1], eld_longitude),
                    evening_local_date(eld_mjd[2], eld_longitude)>>
    /\ UNCHANGED <<eld_mjd, eld_longitude>>

(***************************************************************************)
(* Prenight subclasses that add a tab (custom prenight notebook)            *)
(***************************************************************************)

PrenightSubclasses ==
    {"PrenightWithActivityTab", "PrenightWithAzWrapTab", "PrenightWithMyTab"}

\* The values the data parameters take once something is loaded.
VisitTables == {<<"visits", 1>>, <<"visits", 2>>}
RewardTables == {<<"reward_df", 1>>}
ObsRewardTables == {<<"obs_rewards", 1>>}

\* What a tab method returns: a text, or a pane around a plot.
TextResult(text) == [text |-> text, plot |-> NoData]
PlotResult(plot) == [text |-> None, plot |-> plot]

\* The tab methods of each subclass and the plotting function each wraps.
TabMethods(class) ==
    CASE class = "PrenightWithActivityTab" ->
            {"make_activity_bars", "make_activity_summary_table"}
      [] class = "PrenightWithAzWrapTab" -> {"make_az_wrap_plot"}
      [] class = "PrenightWithMyTab" -> {"make_my_plot"}

PlotFunction(method) ==
    CASE method = "make_activity_bars" -> "create_visit_time_by_activity_bars"
      [] method = "make_activity_summary_table" -> "create_activity_summary_table"
      [] method = "make_az_wrap_plot" -> "create_cumm_az_plot"
      [] method = "make_my_plot" -> "my_plot"

\* The arguments a tab method hands to its plotting function.
PlotArguments(method, visits, reward_df, obs_rewards) ==
    IF method = "make_my_plot" THEN <<visits, reward_df, obs_rewards>> ELSE <<visits>>

\* if self._reward_df is None or self._obs_rewards is None, with "and" for "or"
RewardsMissing_needs_both(method, reward_df, obs_rewards) ==
    method = "make_my_plot" /\ (reward_df = NoData /\ obs_rewards = NoData)

\* if self._reward_df is None or self._obs_rewards is None  (make_my_plot only)
RewardsMissing(method, reward_df, obs_rewards) ==
    method = "make_my_plot" /\ (reward_df = NoData \/ obs_rewards = NoData)

\* The body of a tab method: the text it returns, or None when it plots.
TabText(method, visits, reward_df, obs_rewards) ==
    IF visits = NoData THEN "No visits are loaded"
    ELSE IF RewardsMissing(method, reward_df, obs_rewards) THEN "No rewards are loaded"
    ELSE None

\* Prenight.initialize_tab_contents of the base class: one entry for each of
\* the dashboard's own tabs.
BaseTabNames ==
    {"Azimuth and altitude", "Airmass vs. time", "Sky maps", "Table of visits",
     "Reward plots", "Visit explorer"}

BaseTabContents == [name \in BaseTabNames |-> <<"Prenight", name>>]

NewTabName(class) ==
    CASE class = "PrenightWithActivityTab" -> "Activities"
      [] class = "PrenightWithAzWrapTab" -> "Azimuth wrap"
      [] class = "PrenightWithMyTab" -> "My plot"

\* pn.param.ParamMethod(self.method), or the pn.Row of two of them
NewTabContent(class) ==
    CASE class = "PrenightWithActivityTab" ->
            <<"Row", "make_activity_bars", "make_activity_summary_table">>
      [] class = "PrenightWithAzWrapTab" -> <<"ParamMethod", "make_az_wrap_plot">>
      [] class = "PrenightWithMyTab" -> <<"ParamMethod", "make_my_plot">>

\* tab_contents[key] = content
SetItem(dict, key, content) ==
    [k \in DOMAIN dict \cup {key} |-> IF k = key THEN content ELSE dict[k]]

\* A subclass that puts its plot in place of the reward plots.
InitializeTabContents_replaces_tab(class) ==
    SetItem(BaseTabContents, "Reward plots", NewTabContent(class))

\* initialize_tab_contents of the subclass
InitializeTabContents(class) ==
    SetItem(BaseTabContents, NewTabName(class), NewTabContent(class))

NoCall == [method |-> None, visits |-> NoData, reward_df |-> NoData,
           obs_rewards |-> NoData, result |-> TextResult(None)]

PnStart ==
    /\ pn_class \in PrenightSubclasses
    /\ pn_visits = NoData
    /\ pn_reward_df = NoData
    /\ pn_obs_rewards = NoData
    /\ pn_last = NoCall
    /\ pn_plot_calls = {}
    /\ pn_tabs = NoData

PnParked ==
    /\ pn_class = None
    /\ pn_visits = NoData
    /\ pn_reward_df = NoData
    /\ pn_obs_rewards = NoData
    /\ pn_last = NoCall
    /\ pn_plot_calls = {}
    /\ pn_tabs = NoData

\* The dashboard loads, or drops, its visits and its rewards.
pn_set_visits ==
    /\ \E v \in VisitTables \cup {NoData} : v # pn_visits /\ pn_visits' = v
    /\ UNCHANGED <<pn_class, pn_reward_df, pn_obs_rewards, pn_last, pn_plot_calls, pn_tabs>>

pn_set_reward_df ==
    /\ \E v \in RewardTables \cup {NoData} : v # pn_reward_df /\ pn_reward_df' = v
    /\ UNCHANGED <<pn_class, pn_visits, pn_obs_rewards, pn_last, pn_plot_calls, pn_tabs>>

pn_set_obs_rewards ==
    /\ \E v \in ObsRewardTables \cup {NoData} : v # pn_obs_rewards /\ pn_obs_rewards' = v
    /\ UNCHANGED <<pn_class, pn_visits, pn_reward_df, pn_last, pn_plot_calls, pn_tabs>>

\* A pane evaluates one of the subclass's tab methods.
pn_tab_method ==
    /\ \E method \in TabMethods(pn_class) :
          LET text == TabText(method, pn_visits, pn_reward_df, pn_obs_rewards)
              args == PlotArguments(method, pn_visits, pn_reward_df, pn_obs_rewards)
              call == <<PlotFunction(method), args>>
          IN /\ pn_last' = [method |-> method, visits |-> pn_visits,
                            reward_df |-> pn_reward_df, obs_rewards |-> pn_obs_rewards,
                            result |-> IF text # None THEN TextResult(text)
                                       ELSE PlotResult(call)]
             /\ pn_plot_calls' = IF text # None THEN pn_plot_calls
                                 ELSE pn_plot_calls \cup {call}
    /\ UNCHANGED <<pn_class, pn_visits, pn_reward_df, pn_obs_rewards, pn_tabs>>

pn_initialize_tab_contents ==
    /\ pn_tabs = NoData
    /\ pn_tabs' = InitializeTabContents(pn_class)
    /\ UNCHANGED <<pn_class, pn_visits, pn_reward_df, pn_obs_rewards, pn_last, pn_plot_calls>>

PnStep ==
    \/ pn_set_visits
    \/ pn_set_reward_df
    \/ pn_set_obs_rewards
    \/ pn_tab_method
    \/ pn_initialize_tab_contents

(***************************************************************************)
(* The prenight dashboard's file inputs (docs/usage.rst)                   *)
(***************************************************************************)

FileKinds == {"opsim_db", "scheduler", "rewards"}
DataDirs == {"default_data_dir", "given_data_dir"}
OtherPlaces == {"elsewhere"}

\* A file is named by where it is and what it is.
FileAt(place, kind) == [place |-> place, kind |-> kind]

\* What a user can type as a URL: any file of the right kind, anywhere.
Urls(kind) == {FileAt(place, kind) : place \in DataDirs \cup OtherPlaces}

\* What the selector of a kind offers: the files of the data directory.
Selectable(kind) == {FileAt(pd_data_dir, kind)}

NothingLoaded == [file |-> FileAt(None, None), origin |-> None]

\* A dashboard that takes typed URLs however it was started.
UrlEntryAllowed_always == TRUE

\* Arbitrary URLs can be entered only when started with --insecure.
UrlEntryAllowed == pd_insecure

\* prenight [--data_dir ...] [--insecure] [--opsim_db ... --scheduler ... --rewards ...]
PdStart ==
    /\ pd_insecure \in BOOLEAN
    /\ pd_data_dir \in DataDirs
    /\ \E startup \in BOOLEAN, place \in DataDirs \cup OtherPlaces :
          pd_source = [k \in FileKinds |->
                         IF startup THEN [file |-> FileAt(place, k), origin |-> "startup"]
                         ELSE NothingLoaded]

PdParked ==
    /\ pd_insecure = FALSE
    /\ pd_data_dir = None
    /\ pd_source = [k \in FileKinds |-> NothingLoaded]

\* The user picks a file in a selector (a dashboard started by default).
pd_select ==
    /\ ~pd_insecure
    /\ \E k \in FileKinds : \E f \in Selectable(k) :
          pd_source' = [pd_source EXCEPT ![k] = [file |-> f, origin |-> "selected"]]
    /\ UNCHANGED <<pd_insecure, pd_data_dir>>

\* The user types a URL (a dashboard started to take URLs).
pd_enter_url ==
    /\ UrlEntryAllowed
    /\ \E k \in FileKinds : \E f \in Urls(k) :
          pd_source' = [pd_source EXCEPT ![k] = [file |-> f, origin |-> "entered"]]
    /\ UNCHANGED <<pd_insecure, pd_data_dir>>

PdStep ==
    \/ pd_select
    \/ pd_enter_url

StageRank(e) ==
    CASE e = "parameters" -> 0
      [] e = "collect" -> 1
      [] e = "compute" -> 2
      [] e = "plot" -> 3
      [] e = "report" -> 4
      [] e = "return" -> 5

\* What the arguments alone determine the plot to be.
ExpectedVisits == add_coords_tuple(read_visits(DayObs_from_date(vm_args.iso_date),
                                              vm_args.visit_source))
ExpectedFootprint == get_footprint(BoundNside(vm_args))
ExpectedConditions == return_conditions(BoundNside(vm_args), DayObs_from_date(vm_args.iso_date))
ExpectedPlot ==
    plot_visit_skymaps(ExpectedVisits, ExpectedFootprint, ExpectedConditions, DefaultMapClasses)

\* C3: make_visit_map runs collect, then compute, then plot: the stages run
\* so far never go back to an earlier stage (no collect after a compute or
\* the plot), and once the plot call was made it was given the visits,
\* footprint and conditions that the collect and compute steps returned.
C3_CollectComputePlot ==
    /\ \A i, j \in 1..Len(vm_trace) :
           i < j => StageRank(vm_trace[i]) <= StageRank(vm_trace[j])
    /\ vm_result # NoData =>
           /\ vm_result = plot_visit_skymaps(vm_visits, vm_footprint, vm_conditions,
                                             DefaultMapClasses)
           /\ vm_visits = ExpectedVisits
           /\ vm_footprint = ExpectedFootprint
           /\ vm_conditions = ExpectedConditions

C3_Witness ==
    /\ VmReturned
    /\ vm_trace = <<"parameters", "collect", "collect", "compute", "compute",
                    "plot", "report", "return">>
    /\ vm_ret = ExpectedPlot

\* C8: make_visit_map writes a report file if and only if report is not
\* None: with report None no file is ever created or modified, otherwise on
\* return exactly the named file holds the html of the plot and every other
\* file is as before; the returned plot is the same in both cases, it is
\* determined by the other arguments.
C8_ReportIffRequested ==
    /\ vm_args.report = None => (fs = fs0 /\ vm_written = {})
    /\ VmReturned =>
           /\ (vm_written # {}) <=> (vm_args.report # None)
           /\ vm_args.report # None =>
                  /\ vm_written = {vm_args.report}
                  /\ fs[vm_args.report] = file_html(vm_ret)
                  /\ \A f \in DOMAIN fs : f # vm_args.report => fs[f] = fs0[f]
           /\ vm_ret = ExpectedPlot

C8_Witness ==
    /\ VmReturned
    /\ vm_args.report = "a.html"
    /\ fs0["a.html"] = OldContent
    /\ fs["a.html"] = file_html(vm_ret)
    /\ fs["b.html"] = fs0["b.html"]

\* C10: called without an nside argument, make_visit_map builds the map
\* with nside 8 (the default its docstring states).
C10_DefaultNsideIs8 ==
    (~vm_args.nside_given /\ vm_result # NoData) =>
        /\ vm_footprint = get_footprint(DocumentedDefaultNside)
        /\ vm_conditions = return_conditions(DocumentedDefaultNside, vm_day_obs)

\* C4 as claimed: whenever a library call made inside make_sim_archive_dir
\* or transfer_archive_dir raises, the function stops there.
C4_EveryExceptionPropagates ==
    /\ ms_exc # None => ms_pc = "raised"
    /\ \A p \in Procs : tr_exc[p] # None => tr_pc[p] = "raised"

\* The function that raised takes no further step.
RaisedIsFinal ==
    /\ ms_pc = "raised" => UNCHANGED msVars
    /\ \A p \in Procs :
          tr_pc[p] = "raised" =>
             /\ tr_pc'[p] = "raised"
             /\ tr_exc'[p] = tr_exc[p]
             /\ tr_meta'[p] = tr_meta[p]
             /\ tr_listing'[p] = tr_listing[p]
             /\ tr_found'[p] = tr_found[p]
             /\ tr_new_id'[p] = tr_new_id[p]
             /\ tr_i'[p] = tr_i[p]

\* C4, amended: an exception raised by a call inside make_sim_archive_dir or
\* transfer_archive_dir ends the function there and it takes no further
\* step, except for the two the code catches: shutil.SameFileError from
\* shutil.copyfile, after which make_sim_archive_dir goes on with its loop
\* over in_files, and ValueError from int() of a directory name, after which
\* transfer_archive_dir goes on with its loop over found_dirs.
C4_UncaughtExceptionsPropagate ==
    /\ [](/\ ms_exc \notin {None, "SameFileError"} => ms_pc = "raised"
          /\ ms_exc = "SameFileError" => ms_pc = "copy"
          /\ \A p \in Procs :
                /\ tr_exc[p] \notin {None, "ValueError"} => tr_pc[p] = "raised"
                /\ tr_exc[p] = "ValueError" => tr_pc[p] = "parse")
    /\ [][RaisedIsFinal]_vars

C4_Witness ==
    /\ ms_pc = "raised"
    /\ ms_exc = "OSError"
    /\ ms_args.in_files = ArchiveFiles
    /\ HasKey(ms_files, "scheduler")
    /\ HasKey(ms_files, "notebook")
    /\ ~HasFile(ms_dir, "sim_archive.ipynb")
    /\ ~HasFile(ms_dir, "sim_metadata.yaml")

\* The instant of the k-th local mean solar noon at a longitude: local mean
\* solar time runs ahead of UTC by longitude/360 of a day.
LocalNoon(k, longitude) == k * TicksPerDay + TicksPerDay \div 2 - longitude

\* The noon that begins the noon-to-noon interval an instant lies in.
NoonBefore(ticks, longitude) ==
    CHOOSE k \in (ticks \div TicksPerDay - 2)..(ticks \div TicksPerDay + 2) :
        LocalNoon(k, longitude) <= ticks /\ ticks < LocalNoon(k + 1, longitude)

\* The local civil day (midnight to midnight) of an instant.
LocalCivilDay(ticks, longitude) == (ticks + longitude) \div TicksPerDay

\* C5: evening_local_date gives two instants the same date exactly when they
\* lie between the same pair of consecutive local mean solar noons at the
\* given longitude.
C5_DateChangesAtLocalNoon ==
    eld_out # NoData =>
        ((eld_out[1] = eld_out[2])
           <=> (NoonBefore(eld_mjd[1], eld_longitude) = NoonBefore(eld_mjd[2], eld_longitude)))

\* An evening and the following morning: one date across local midnight.
C5_Witness ==
    /\ eld_out # NoData
    /\ eld_out[1] = eld_out[2]
    /\ eld_longitude = -71
    /\ LocalCivilDay(eld_mjd[1], eld_longitude) + 1 = LocalCivilDay(eld_mjd[2], eld_longitude)
    /\ eld_out[1] = <<2024, 2, 29>>

\* C6: a tab method never calls its plotting function with missing data:
\* no plotting call was ever given None; a tab method called while _visits
\* is None returned the text "No visits are loaded"; make_my_plot called with
\* visits but without _reward_df or without _obs_rewards returned "No rewards
\* are loaded"; and a method that did plot had all the data it passes on.
C6_NoPlotWithoutData ==
    /\ \A call \in pn_plot_calls : \A i \in 1..Len(call[2]) : call[2][i] # NoData
    /\ \A call \in pn_plot_calls : call[1] = "my_plot" => Len(call[2]) = 3
    /\ pn_last.method # None =>
          /\ pn_last.visits = NoData =>
                pn_last.result = TextResult("No visits are loaded")
          /\ (/\ pn_last.method = "make_my_plot"
              /\ pn_last.visits # NoData
              /\ (pn_last.reward_df = NoData \/ pn_last.obs_rewards = NoData)) =>
                pn_last.result = TextResult("No rewards are loaded")
          /\ pn_last.result.plot # NoData =>
                /\ pn_last.visits # NoData
                /\ pn_last.method = "make_my_plot" =>
                      (pn_last.reward_df # NoData /\ pn_last.obs_rewards # NoData)

C6_Witness ==
    /\ pn_last.method = "make_my_plot"
    /\ pn_last.visits # NoData
    /\ pn_last.reward_df # NoData
    /\ pn_last.obs_rewards = NoData
    /\ pn_last.result = TextResult("No rewards are loaded")
    /\ <<"my_plot", <<pn_last.visits, pn_last.reward_df, <<"obs_rewards", 1>> >> >>
          \in pn_plot_calls

\* C7: what initialize_tab_contents of a subclass returns holds every entry
\* the base class returns, unchanged, and exactly one entry more, under the
\* new tab's name.
C7_TabsExtendBase ==
    pn_tabs # NoData =>
        /\ \A name \in DOMAIN BaseTabContents :
              name \in DOMAIN pn_tabs /\ pn_tabs[name] = BaseTabContents[name]
        /\ DOMAIN pn_tabs \ DOMAIN BaseTabContents = {NewTabName(pn_class)}

C7_Witness ==
    /\ pn_tabs # NoData
    /\ pn_class = "PrenightWithActivityTab"
    /\ pn_tabs["Activities"] = <<"Row", "make_activity_bars", "make_activity_summary_table">>
    /\ Cardinality(DOMAIN pn_tabs) = Cardinality(BaseTabNames) + 1

NoUpdateInProgress == pending = <<>>

PositionsAreCurrent ==
    positions = compute_minor_planet_positions(orbits, start_mjd, end_mjd, DashTimeStep)

MakeAppEvents ==
    <<"call:make_app", "run:update_orbits", "assign:orbits",
      "run:update_positions", "assign:positions",
      "run:make_position_figure", "call:map_minor_planet_positions">>

\* C15: make_app on a dashboard whose orbit_filename is a file (the default
\* one of a fresh dashboard included) runs update_orbits once and then
\* update_positions once, and orbits and positions are both set when the
\* layout is built and returned.
C15_MakeAppLoadsOnce ==
    (log # <<>> /\ log[1] = "call:make_app" /\ orbit_filename # None) =>
        /\ IsPrefix(log, MakeAppEvents)
        /\ (pending # <<>> /\ Head(pending) = "build_app") =>
               /\ log = SubSeq(MakeAppEvents, 1, 5)
               /\ orbits # NoData
               /\ positions # NoData
        /\ app_made =>
               /\ log = MakeAppEvents
               /\ orbits = read_minor_planet_orbits(orbit_filename)
               /\ PositionsAreCurrent

C15_Witness ==
    /\ app_made
    /\ log = MakeAppEvents
    /\ orbit_filename = DefaultOrbitFile
    /\ start_mjd = DefaultStartMjd
    /\ end_mjd = DefaultEndMjd
    /\ orbits = read_minor_planet_orbits(DefaultOrbitFile)
    /\ PositionsAreCurrent

UpdateOrbitsRunsOnNone ==
    /\ pending # <<>>
    /\ Head(pending) = "update_orbits"
    /\ orbit_filename = None

NothingLoaded_by_update_orbits ==
    /\ orbits' = orbits
    /\ positions' = positions
    /\ pending' = Tail(pending)
    /\ ~InSeq("update_positions", pending')
    /\ log' = Append(log, "run:update_orbits")

\* C16: a run of update_orbits while orbit_filename is None loads nothing:
\* orbits and positions keep their values, and update_positions is neither
\* run nor queued by it.
C16_NoFileLoadsNothing ==
    [][UpdateOrbitsRunsOnNone => NothingLoaded_by_update_orbits]_vars

C16_Witness ==
    /\ orbit_filename = None
    /\ log = <<"set:orbit_filename", "run:update_orbits">>
    /\ pending = <<>>
    /\ orbits # NoData
    /\ positions # NoData

StageAtHead(stages) == pending # <<>> /\ Head(pending) \in stages

MissingInputSkipsStage ==
    /\ (StageAtHead({"update_positions"}) /\ orbits = NoData) =>
           /\ positions' = positions
           /\ log' = Append(log, "run:update_positions")
    /\ (StageAtHead({"make_position_figure", "build_app"}) /\ positions = NoData) =>
           /\ figure' = NoData
           /\ ~InSeq("call:map_minor_planet_positions", log')

\* C17: no stage runs on a missing input: every positions table was computed
\* from an orbits table and every figure was drawn from a positions table;
\* update_positions run while orbits is None leaves positions as it was, and
\* make_position_figure evaluated while positions is None gives None without
\* calling map_minor_planet_positions.
C17_NoStageOnMissingInput ==
    /\ [](/\ positions # NoData => positions[2] # NoData
          /\ figure # NoData => figure[2] # NoData)
    /\ [][MissingInputSkipsStage]_vars

C17_Witness ==
    /\ app_made
    /\ orbits = NoData
    /\ positions = NoData
    /\ figure = NoData
    /\ log = <<"set:start_mjd", "run:update_positions">>

(***************************************************************************)
(* transfer_archive_dir: numbering, interleaving, partial copies           *)
(***************************************************************************)

\* resource_rpath.mkdir() of execution p has returned.
Used(p) == tr_i[p] >= 1

\* The numbered directory execution p writes into.
DirOf(p) == FormatInt(tr_new_id[p])

\* The subdirectories execution p was told of by walk().
SeenNames(p) ==
    {SubSeq(tr_seen[p][i], 1, Len(tr_seen[p][i]) - 1) : i \in 1..Len(tr_seen[p])}

IntsOf(names) == {IntOf(n) : n \in {m \in names : IsIntLiteral(m)}}

\* The original statement of C12: two executions never use the same
\* numbered destination directory, however their steps interleave.
C12_NeverSameDirectory ==
    \A p, q \in Procs :
        (p # q /\ Used(p) /\ Used(q)) => DirOf(p) # DirOf(q)

\* C12, amended: two executions use different numbered directories whenever
\* one of them listed the date directory after the other had created its
\* numbered directory, so that its listing holds that directory.
C12_DistinctWhenListedAfterCreation ==
    \A p, q \in Procs :
        (p # q /\ Used(p) /\ Used(q) /\ DirOf(p) \in SeenNames(q)) =>
            /\ DirOf(p) # DirOf(q)
            /\ tr_new_id[q] > tr_new_id[p]

C12_Witness ==
    /\ Used("t1")
    /\ Used("t2")
    /\ DirOf("t1") \in SeenNames("t2")
    /\ tr_new_id["t2"] = tr_new_id["t1"] + 1
    /\ DOMAIN dest = SeenNames("t2") \cup {DirOf("t2")}

CreatesItsDirectory(p) == tr_pc[p] = "mkdir" /\ tr_pc'[p] = "copy"

NumberedAfterListing(p) ==
    LET listed == SeenNames(p)
        ints == IntsOf(listed)
        name == FormatInt(tr_new_id'[p])
    IN /\ tr_new_id'[p] = IF ints = {} THEN 1 ELSE Max(ints) + 1
       /\ \A i \in ints : tr_new_id'[p] > i
       /\ name \notin listed
       /\ DOMAIN dest = listed =>
              /\ name \notin DOMAIN dest
              /\ DOMAIN dest' = DOMAIN dest \cup {name}
       /\ \A n \in DOMAIN dest : dest'[n] = dest[n]

\* C13: the number of the new directory is 1 when the date directory, as
\* listed, has no subdirectory with an integer name, and otherwise one more
\* than the largest integer name; names that are not integers are ignored;
\* the number exceeds every number listed, and when nothing was created since
\* the listing (transfers one after the other) the directory is a new one and
\* the existing ones are left as they are.
C13_NumberedAfterLargest ==
    [][\A p \in Procs : CreatesItsDirectory(p) => NumberedAfterListing(p)]_vars

C13_Witness ==
    /\ Used("t1")
    /\ Used("t2")
    /\ <<"l", "o", "g">> \in SeenNames("t1")
    /\ <<"0", "2">> \in SeenNames("t1")
    /\ tr_new_id["t1"] = 3
    /\ DirOf("t1") \in SeenNames("t2")
    /\ tr_new_id["t2"] = 4

NamesOf(files) == {files[i].name : i \in 1..Len(files)}

AllEnded == \A p \in Procs : tr_pc[p] \in {"done", "raised"}

\* The original statement of C14: once the executions have ended, failed or
\* not, every numbered directory holds sim_metadata.yaml and every file the
\* metadata lists.
C14_NoPartialArchive ==
    AllEnded =>
        \A p \in Procs :
            Used(p) =>
                /\ "sim_metadata.yaml" \in dest[DirOf(p)]
                /\ NamesOf(tr_meta[p]) \subseteq dest[DirOf(p)]

CopiedSoFar(p) == {tr_meta[p][i].name : i \in 1..(tr_i[p] - 1)}

FailureLeavesDestination ==
    \A p \in Procs :
        (tr_pc[p] # "raised" /\ tr_pc'[p] = "raised") => dest' = dest

\* C14, amended: the numbered directory of an execution that returned holds
\* sim_metadata.yaml and every file the metadata lists; the directory of an
\* execution that is copying or failed while copying holds the files copied
\* until then, and a failure leaves the destination as it is: nothing is
\* removed.
C14_CompleteOnceReturned ==
    /\ [](\A p \in Procs :
            /\ tr_pc[p] = "done" =>
                   /\ "sim_metadata.yaml" \in dest[DirOf(p)]
                   /\ NamesOf(tr_meta[p]) \subseteq dest[DirOf(p)]
            /\ Used(p) => CopiedSoFar(p) \subseteq dest[DirOf(p)])
    /\ [][FailureLeavesDestination]_vars

C14_Witness ==
    /\ tr_pc["t1"] = "done"
    /\ tr_pc["t2"] = "raised"
    /\ Used("t2")
    /\ DirOf("t1") # DirOf("t2")
    /\ NamesOf(tr_meta["t1"]) \subseteq dest[DirOf("t1")]
    /\ dest[DirOf("t2")] # {}
    /\ "sim_metadata.yaml" \notin dest[DirOf("t2")]

(***************************************************************************)
(* The reward plot notebook: tier, surveys and basis_function selectors    *)
(***************************************************************************)

\* The rows a tier contributes to reward_df: one per survey and basis
\* function.
TierRows(tier, surveys, bfs) ==
    [k \in 1..(Len(surveys) * Len(bfs)) |->
        [tier_label |-> tier,
         survey_label |-> surveys[((k - 1) \div Len(bfs)) + 1],
         basis_function |-> bfs[((k - 1) % Len(bfs)) + 1]]]

\* reward_df, as a simulated night gives it: three tiers, one of them with
\* more than ten surveys.
reward_df ==
    TierRows("tier 0", <<"greedy">>, <<"M5Diff", "Slewtime">>)
    \o TierRows("tier 1", <<"blob_gr", "blob_iz">>, <<"M5Diff", "Footprint">>)
    \o TierRows("tier 2",
                <<"ddf01", "ddf02", "ddf03", "ddf04", "ddf05", "ddf06",
                  "ddf07", "ddf08", "ddf09", "ddf10", "ddf11">>,
                <<"Footprint">>)

\* Series.unique().tolist(): the distinct values in order of first appearance
RECURSIVE Unique(_)
Unique(values) ==
    IF values = <<>> THEN <<>>
    ELSE LET rest == Unique(SubSeq(values, 1, Len(values) - 1))
             last == values[Len(values)]
         IN IF \E i \in 1..Len(rest) : rest[i] = last THEN rest ELSE Append(rest, last)

\* reward_df.set_index("tier_label").loc[tier, column]
TierColumn(tier, column) ==
    LET rows == SelectSeq(reward_df, LAMBDA r : r.tier_label = tier)
    IN [i \in 1..Len(rows) |-> rows[i][column]]

\* reward_df.tier_label.unique().tolist()
TierOptions == Unique([i \in 1..Len(reward_df) |-> reward_df[i].tier_label])

InitialTier == "tier 2"
MaxShownSurveys == 10

\* A selector whose value is all of the tier's surveys.
SurveyValue_keeps_all(surveys) == surveys

\* surveys[:10] if len(surveys) > 10 else surveys
SurveyValue(surveys) ==
    IF Len(surveys) > MaxShownSurveys THEN SubSeq(surveys, 1, MaxShownSurveys) ELSE surveys

\* configure_survey_selector: the options and the value it assigns
configure_survey_selector(tier) ==
    LET surveys == Unique(TierColumn(tier, "survey_label"))
    IN [options |-> surveys, value |-> SurveyValue(surveys)]

\* configure_basis_function_selector: the options and the value it assigns
configure_basis_function_selector(tier) ==
    LET basis_functions == Unique(TierColumn(tier, "basis_function"))
    IN [options |-> <<"Total">> \o basis_functions, value |-> "Total"]

\* What is invoked when a widget's value changes, in the order the watchers
\* were set up: tier.link(surveys, ...), tier.link(basis_function, ...), then
\* the panes of the bound functions made by pn.Column.
ValueWatchers(widget) ==
    CASE widget = "tier" ->
            <<"survey_selector_update_callback",
              "basis_function_selector_update_callback",
              "reward_plot", "infeasible_plot">>
      [] widget = "surveys" -> <<"reward_plot", "infeasible_plot">>
      [] widget = "basis_function" -> <<"reward_plot">>

\* The arguments a bound function is evaluated with: the widgets' values at
\* the time of the call.
BoundCall(fn) ==
    [fn |-> fn, tier |-> rp_tier, surveys |-> rp_surveys_value,
     basis_function |-> IF fn = "plot_rewards" THEN rp_bf_value ELSE None]

\* The cell as run: the selectors configured for the initial tier, and the
\* two bound functions evaluated once for the layout.
RpStart ==
    /\ rp_tier = InitialTier
    /\ rp_surveys_options = configure_survey_selector(InitialTier).options
    /\ rp_surveys_value = configure_survey_selector(InitialTier).value
    /\ rp_bf_options = configure_basis_function_selector(InitialTier).options
    /\ rp_bf_value = configure_basis_function_selector(InitialTier).value
    /\ rp_pending = <<>>
    /\ rp_calls =
         <<[fn |-> "plot_rewards", tier |-> InitialTier,
            surveys |-> configure_survey_selector(InitialTier).value,
            basis_function |-> "Total"],
           [fn |-> "plot_infeasible", tier |-> InitialTier,
            surveys |-> configure_survey_selector(InitialTier).value,
            basis_function |-> None]>>
    /\ rp_event = "start"

RpParked ==
    /\ rp_tier = None
    /\ rp_surveys_options = <<>>
    /\ rp_surveys_value = <<>>
    /\ rp_bf_options = <<>>
    /\ rp_bf_value = None
    /\ rp_pending = <<>>
    /\ rp_calls = <<>>
    /\ rp_event = None

\* The selections a user makes in the surveys widget: the first k options.
SurveyChoices == {SubSeq(rp_surveys_options, 1, k) : k \in 0..Len(rp_surveys_options)}

\* The user picks another tier.
rp_select_tier ==
    /\ rp_pending = <<>>
    /\ \E t \in {TierOptions[i] : i \in 1..Len(TierOptions)} :
          /\ t # rp_tier
          /\ rp_tier' = t
    /\ rp_pending' = ValueWatchers("tier")
    /\ rp_calls' = <<>>
    /\ rp_event' = "tier"
    /\ UNCHANGED <<rp_surveys_options, rp_surveys_value, rp_bf_options, rp_bf_value>>

\* The user changes the selection of surveys.
rp_select_surveys ==
    /\ rp_pending = <<>>
    /\ \E v \in SurveyChoices :
          /\ v # rp_surveys_value
          /\ rp_surveys_value' = v
    /\ rp_pending' = ValueWatchers("surveys")
    /\ rp_calls' = <<>>
    /\ rp_event' = "surveys"
    /\ UNCHANGED <<rp_tier, rp_surveys_options, rp_bf_options, rp_bf_value>>

\* The user picks another basis function.
rp_select_basis_function ==
    /\ rp_pending = <<>>
    /\ \E v \in {rp_bf_options[i] : i \in 1..Len(rp_bf_options)} :
          /\ v # rp_bf_value
          /\ rp_bf_value' = v
    /\ rp_pending' = ValueWatchers("basis_function")
    /\ rp_calls' = <<>>
    /\ rp_event' = "basis_function"
    /\ UNCHANGED <<rp_tier, rp_surveys_options, rp_surveys_value, rp_bf_options>>

\* survey_selector_update_callback(surveys, event): configures the selector
\* for event.new; a changed value invokes what watches it, at once.
survey_selector_update_callback ==
    /\ rp_pending # <<>>
    /\ Head(rp_pending) = "survey_selector_update_callback"
    /\ LET new == configure_survey_selector(rp_tier)
       IN /\ rp_surveys_options' = new.options
          /\ rp_surveys_value' = new.value
          /\ rp_pending' =
                (IF new.value # rp_surveys_value THEN ValueWatchers("surveys") ELSE <<>>)
                \o Tail(rp_pending)
    /\ UNCHANGED <<rp_tier, rp_bf_options, rp_bf_value, rp_calls, rp_event>>

\* basis_function_selector_update_callback(basis_function, event)
basis_function_selector_update_callback ==
    /\ rp_pending # <<>>
    /\ Head(rp_pending) = "basis_function_selector_update_callback"
    /\ LET new == configure_basis_function_selector(rp_tier)
       IN /\ rp_bf_options' = new.options
          /\ rp_bf_value' = new.value
          /\ rp_pending' =
                (IF new.value # rp_bf_value THEN ValueWatchers("basis_function") ELSE <<>>)
                \o Tail(rp_pending)
    /\ UNCHANGED <<rp_tier, rp_surveys_options, rp_surveys_value, rp_calls, rp_event>>

\* reward_plot = pn.bind(plot_rewards, reward_df, tier, night, None,
\* obs_rewards, surveys, basis_function): one evaluation
reward_plot ==
    /\ rp_pending # <<>>
    /\ Head(rp_pending) = "reward_plot"
    /\ rp_calls' = Append(rp_calls, BoundCall("plot_rewards"))
    /\ rp_pending' = Tail(rp_pending)
    /\ UNCHANGED <<rp_tier, rp_surveys_options, rp_surveys_value, rp_bf_options,
                   rp_bf_value, rp_event>>

\* infeasible_plot = pn.bind(plot_infeasible, reward_df, tier, night, None,
\* surveys): one evaluation
infeasible_plot ==
    /\ rp_pending # <<>>
    /\ Head(rp_pending) = "infeasible_plot"
    /\ rp_calls' = Append(rp_calls, BoundCall("plot_infeasible"))
    /\ rp_pending' = Tail(rp_pending)
    /\ UNCHANGED <<rp_tier, rp_surveys_options, rp_surveys_value, rp_bf_options,
                   rp_bf_value, rp_event>>

RpStep ==
    \/ rp_select_tier
    \/ rp_select_surveys
    \/ rp_select_basis_function
    \/ survey_selector_update_callback
    \/ basis_function_selector_update_callback
    \/ reward_plot
    \/ infeasible_plot

ElementsOf(values) == {values[i] : i \in 1..Len(values)}

\* The arguments of a call fit together: the surveys are surveys of the tier
\* and the basis function is "Total" or a basis function of the tier.
ConsistentCall(call) ==
    /\ ElementsOf(call.surveys) \subseteq ElementsOf(TierColumn(call.tier, "survey_label"))
    /\ call.fn = "plot_rewards" =>
           call.basis_function \in
               {"Total"} \cup ElementsOf(TierColumn(call.tier, "basis_function"))

\* C18: after the tier changes, every call of plot_rewards and
\* plot_infeasible has a tier, a survey selection and a basis function that
\* fit together: no call has the new tier with surveys or a basis function
\* of the previous tier.
C18_PlotsSeeConsistentSelectors ==
    rp_event = "tier" =>
        \A i \in 1..Len(rp_calls) : ConsistentCall(rp_calls[i])

NoDuplicates(values) ==
    \A i, j \in 1..Len(values) : values[i] = values[j] => i = j

TierChangeProcessed == rp_event = "tier" /\ rp_pending = <<>>

\* C19: once a tier change is processed, the options of the survey selector
\* are the distinct surveys of the tier and its value is the first ten of
\* them, or all when there are ten or fewer; the options of the basis
\* function selector are "Total" and then the distinct basis functions of
\* the tier, and its value is "Total"; and whenever nothing is pending every
\* selected value is one of the options.
C19_SelectorsFollowTier ==
    /\ TierChangeProcessed =>
          /\ ElementsOf(rp_surveys_options) =
                {reward_df[i].survey_label :
                    i \in {j \in 1..Len(reward_df) : reward_df[j].tier_label = rp_tier}}
          /\ NoDuplicates(rp_surveys_options)
          /\ Len(rp_surveys_value) =
                IF Len(rp_surveys_options) <= 10 THEN Len(rp_surveys_options) ELSE 10
          /\ IsPrefix(rp_surveys_value, rp_surveys_options)
          /\ rp_bf_options[1] = "Total"
          /\ ElementsOf(Tail(rp_bf_options)) =
                {reward_df[i].basis_function :
                    i \in {j \in 1..Len(reward_df) : reward_df[j].tier_label = rp_tier}}
          /\ NoDuplicates(rp_bf_options)
          /\ rp_bf_value = "Total"
    /\ rp_pending = <<>> =>
          /\ ElementsOf(rp_surveys_value) \subseteq ElementsOf(rp_surveys_options)
          /\ rp_bf_value \in ElementsOf(rp_bf_options)
          /\ rp_tier \in ElementsOf(TierOptions)

C19_Witness ==
    /\ TierChangeProcessed
    /\ rp_tier = "tier 2"
    /\ Len(rp_surveys_options) = 11
    /\ Len(rp_surveys_value) = 10
    /\ rp_bf_options = <<"Total", "Footprint">>
    /\ Len(rp_calls) >= 2

(***************************************************************************)
(* compute_minor_planet_positions: the sample times                        *)
(***************************************************************************)

\* The date windows and time steps the function is called with; the
\* dashboard's own call, 60200 to 60565 in steps of 28, is among them.
SampleStarts == {DefaultStartMjd, 60201}
SampleSpans == {0, 1, 6, 7, 13, 14, 27, 28, 55, 56, 166, 365}
SampleSteps == {1, 7, DashTimeStep}

\* n_samples = int((1 + end_mjd - start_mjd) / time_step)
n_samples(start, end, time_step) == (1 + end - start) \div time_step

\* timescale.linspace(start_ts, end_ts, n_samples): n times evenly spaced
\* from start to end, both included; the k-th is start + (k-1)(end-start)/(n-1),
\* kept exact as <<numerator, denominator>>.
linspace(start, end, n) ==
    IF n = 1 THEN <<(<<start, 1>>)>>
    ELSE [k \in 1..n |-> <<start * (n - 1) + (k - 1) * (end - start), n - 1>>]

sample_times(start, end, time_step) ==
    linspace(start, end, n_samples(start, end, time_step))

\* The orbit tables the function is given: none, one, the four of the
\* documentation's example, and two in another order.
OrbitTables ==
    {<<>>, <<"(1) Ceres">>, <<"(4) Vesta", "(2) Pallas">>,
     <<"(1) Ceres", "(2) Pallas", "(3) Juno", "(4) Vesta">>}

\* for sample_time in sample_times: the rows appended for one orbit; the mjd
\* kept in a row is the sample time.
OrbitRows(designation, samples) ==
    [k \in 1..Len(samples) |-> <<designation, samples[k]>>]

\* Loops the other way round: for each sample time, a row for each orbit.
RECURSIVE position_data_time_major(_, _)
position_data_time_major(orbit_table, samples) ==
    IF samples = <<>> THEN <<>>
    ELSE position_data_time_major(orbit_table, SubSeq(samples, 1, Len(samples) - 1))
         \o [i \in 1..Len(orbit_table) |-> <<orbit_table[i], samples[Len(samples)]>>]

\* for _, orbit in minor_planet_orbits.iterrows(): the rows of the orbits
\* before the last, then those of the last.
RECURSIVE position_data(_, _)
position_data(orbit_table, samples) ==
    IF orbit_table = <<>> THEN <<>>
    ELSE position_data(SubSeq(orbit_table, 1, Len(orbit_table) - 1), samples)
         \o OrbitRows(orbit_table[Len(orbit_table)], samples)

CpStart ==
    /\ \E start \in SampleStarts, span \in SampleSpans, time_step \in SampleSteps :
          cp_args = <<start, start + span, time_step>>
    /\ cp_orbits \in OrbitTables
    /\ cp_samples = <<>>
    /\ cp_rows = <<>>
    /\ cp_done = FALSE

CpParked ==
    /\ cp_args = <<0, 0, 1>>
    /\ cp_orbits = <<>>
    /\ cp_samples = <<>>
    /\ cp_rows = <<>>
    /\ cp_done = FALSE

\* compute_minor_planet_positions(orbits, start_mjd, end_mjd, time_step)
cp_call ==
    /\ ~cp_done
    /\ cp_samples' = sample_times(cp_args[1], cp_args[2], cp_args[3])
    /\ cp_rows' = position_data(cp_orbits, sample_times(cp_args[1], cp_args[2], cp_args[3]))
    /\ cp_done' = TRUE
    /\ UNCHANGED <<cp_args, cp_orbits>>

\* C20: the sample times begin at start_mjd, each is exactly time_step days
\* after the one before, and none is later than end_mjd.
C20_SamplesEveryTimeStep ==
    cp_done =>
        LET start == cp_args[1]
            end == cp_args[2]
            time_step == cp_args[3]
            t == cp_samples
        IN /\ Len(t) >= 1 => t[1][1] = start * t[1][2]
           /\ \A k \in 1..(Len(t) - 1) :
                 t[k + 1][1] - t[k][1] = time_step * t[k][2]
           /\ \A k \in 1..Len(t) : t[k][1] <= end * t[k][2]

\* The rows of the i-th orbit, if each orbit has n of them in turn.
RowsOfOrbit(i, n) == SubSeq(cp_rows, (i - 1) * n + 1, i * n)

\* C21: the result has one row per orbit and sample time, the number of
\* orbits times int((1 + end_mjd - start_mjd) / time_step) rows; the rows of
\* each orbit are contiguous, the orbits come in input order and the times
\* of an orbit's rows increase; 4 orbits over 60200 to 60366 with time_step 1
\* give 668 rows.
C21_OneRowPerOrbitAndTime ==
    cp_done =>
        LET n == (1 + cp_args[2] - cp_args[1]) \div cp_args[3]
        IN /\ Len(cp_rows) = Len(cp_orbits) * n
           /\ \A i \in 1..Len(cp_orbits) :
                 /\ \A k \in 1..n : RowsOfOrbit(i, n)[k][1] = cp_orbits[i]
                 /\ \A k \in 1..(n - 1) :
                       /\ RowsOfOrbit(i, n)[k][2][2] = RowsOfOrbit(i, n)[k + 1][2][2]
                       /\ RowsOfOrbit(i, n)[k][2][1] < RowsOfOrbit(i, n)[k + 1][2][1]
           /\ (Len(cp_orbits) = 4 /\ cp_args = <<60200, 60366, 1>>) =>
                 Len(cp_rows) = 668

C21_Witness ==
    /\ cp_done
    /\ cp_args = <<60200, 60366, 1>>
    /\ Len(cp_orbits) = 4
    /\ Len(cp_rows) = 668
    /\ cp_rows[1] = <<"(1) Ceres", <<60200 * 166, 166>>>>
    /\ cp_rows[668] = <<"(4) Vesta", <<60366 * 166, 166>>>>

(***************************************************************************)
(* The night to simulate: sim_start_mjd and night_duration                 *)
(***************************************************************************)

Notebooks == {"prenight_rewardplot", "sim_archive"}

\* The almanac's nights, and when in the UTC day the sun sets, how long
\* after that it is 12 degrees below the horizon, and when it rises, at a
\* site 71 degrees west, in 1/360 day.
AlmanacFirstMjd == 60676
AlmanacNights == 3
SunsetTimes == {338, 345, 352}
TwilightLengths == {13, 15}
SunriseTimes == {150, 160}
SiteLongitude == -71

\* observatory.almanac.sunsets: a row per night, the sunrise being the one
\* that ends the night.
Sunsets(sunset, twilight, sunrise) ==
    [d \in 1..AlmanacNights |->
        [sunset |-> (AlmanacFirstMjd + d - 1) * TicksPerDay + sunset,
         sun_n12_setting |-> (AlmanacFirstMjd + d - 1) * TicksPerDay + sunset + twilight,
         sunrise |-> (AlmanacFirstMjd + d) * TicksPerDay + sunrise]]

\* np.floor(sunsets["sunset"] + longitude / 360) == evening_mjd, and the
\* first row of the selection.
ThisNight(table, evening_mjd) ==
    LET this_night == SelectSeq(table,
            LAMBDA row : (row.sunset + SiteLongitude) \div TicksPerDay = evening_mjd)
    IN this_night[1]

\* night_duration, as each notebook computes it
NightDuration(notebook, night) ==
    IF notebook = "prenight_rewardplot"
    THEN night.sun_n12_setting - night.sunrise
    ELSE night.sunrise - night.sun_n12_setting

NdStart ==
    /\ nd_notebook \in Notebooks
    /\ \E sunset \in SunsetTimes, twilight \in TwilightLengths, sunrise \in SunriseTimes :
          nd_almanac = Sunsets(sunset, twilight, sunrise)
    /\ nd_evening_mjd \in AlmanacFirstMjd..(AlmanacFirstMjd + AlmanacNights - 1)
    /\ nd_sim_start_mjd = 0
    /\ nd_night_duration = 0
    /\ nd_done = FALSE

NdParked ==
    /\ nd_notebook = None
    /\ nd_almanac = <<>>
    /\ nd_evening_mjd = 0
    /\ nd_sim_start_mjd = 0
    /\ nd_night_duration = 0
    /\ nd_done = FALSE

NdCell(notebook) ==
    /\ ~nd_done
    /\ nd_notebook = notebook
    /\ nd_sim_start_mjd' = ThisNight(nd_almanac, nd_evening_mjd).sun_n12_setting
    /\ nd_night_duration' = NightDuration(notebook, ThisNight(nd_almanac, nd_evening_mjd))
    /\ nd_done' = TRUE
    /\ UNCHANGED <<nd_notebook, nd_almanac, nd_evening_mjd>>

\* prenight_rewardplot.ipynb: sim_start_mjd, sim_end_mjd, night_duration
nd_rewardplot_cell == NdCell("prenight_rewardplot")

\* sim_archive.ipynb: get_sunset_info, sim_start_mjd, night_duration
nd_sim_archive_cell == NdCell("sim_archive")

NdStep == nd_rewardplot_cell \/ nd_sim_archive_cell

\* The night of evening_mjd: the one whose sunset falls on that local day.
ChosenNight ==
    CHOOSE d \in 1..Len(nd_almanac) :
        (nd_almanac[d].sunset + SiteLongitude) \div TicksPerDay = nd_evening_mjd

\* C22: the night duration given to sim_runner is the time, not negative,
\* from the simulation start (sun_n12_setting of the chosen evening) to the
\* sunrise of the same night, so that the simulation starts and ends within
\* that night.
C22_DurationIsStartToSunrise ==
    nd_done =>
        /\ nd_sim_start_mjd = nd_almanac[ChosenNight].sun_n12_setting
        /\ nd_night_duration >= 0
        /\ nd_sim_start_mjd + nd_night_duration = nd_almanac[ChosenNight].sunrise
        /\ nd_almanac[ChosenNight].sunset <= nd_sim_start_mjd

(***************************************************************************)
(* make_sim_archive_dir: hashes and the rewards file                       *)
(***************************************************************************)

\* opsim_metadata['files'] as written to sim_metadata.yaml
ListedFiles == ms_dir["sim_metadata.yaml"][2]

MetadataWritten == ms_pc = "done" /\ HasFile(ms_dir, "sim_metadata.yaml")

ListedTypes == {ListedFiles[i].type : i \in 1..Len(ListedFiles)}

\* C23: every entry of the files listed in sim_metadata.yaml has an md5, the
\* digest of the content the file of that name has in the archive directory;
\* the observations, the statistics, the rewards when saved and every entry
\* of in_files are listed.
C23_ListedHashesMatchContent ==
    MetadataWritten =>
        /\ \A i \in 1..Len(ListedFiles) :
              /\ HasFile(ms_dir, ListedFiles[i].name)
              /\ ListedFiles[i].md5 = <<"md5", ms_dir[ListedFiles[i].name]>>
        /\ {"observations", "statistics"} \subseteq ListedTypes
        /\ (ms_args.reward_df /\ ms_args.obs_rewards) => "rewards" \in ListedTypes
        /\ \A i \in 1..Len(ms_args.in_files) : ms_args.in_files[i].type \in ListedTypes

C23_Witness ==
    /\ MetadataWritten
    /\ ms_args.in_files = ArchiveFiles
    /\ ListedTypes = {"observations", "rewards", "statistics", "scheduler", "notebook"}
    /\ \E i \in 1..Len(ListedFiles) :
          /\ ListedFiles[i].name = "rewards.h5"
          /\ ListedFiles[i].md5 = <<"md5", <<"hdf", "reward_df", "obs_rewards">>>>

BothRewardsSupplied == ms_args.reward_df /\ ms_args.obs_rewards

\* C24: rewards.h5 is written and listed exactly when reward_df and
\* obs_rewards are both supplied: at no point does the directory hold it or
\* files list it otherwise, and once the function has returned with both
\* supplied the file is there, holds both tables and is listed in the
\* metadata.
C24_RewardsIffBothSupplied ==
    /\ ~BothRewardsSupplied =>
          /\ ~HasFile(ms_dir, "rewards.h5")
          /\ ~HasKey(ms_files, "rewards")
          /\ MetadataWritten => "rewards" \notin ListedTypes
    /\ (BothRewardsSupplied /\ MetadataWritten) =>
          /\ HasFile(ms_dir, "rewards.h5")
          /\ ms_dir["rewards.h5"] = <<"hdf", "reward_df", "obs_rewards">>
          /\ HasKey(ms_files, "rewards")
          /\ "rewards" \in ListedTypes

C24_Witness ==
    /\ MetadataWritten
    /\ ms_args.reward_df
    /\ ~ms_args.obs_rewards
    /\ ~HasFile(ms_dir, "rewards.h5")
    /\ ListedTypes = {"observations", "statistics"}

(***************************************************************************)
(* Specifications                                                          *)
(***************************************************************************)

DashInit == DashStart /\ VmParked /\ MsParked /\ TrParked /\ EldParked /\ PnParked /\ PdParked /\ RpParked /\ CpParked /\ NdParked
DashNext == DashStep /\ UNCHANGED <<vmVars, msVars, trVars, eldVars, pnVars, pdVars, rpVars, cpVars, ndVars>>
SpecDash == DashInit /\ [][DashNext]_vars

VmInit == VmStart /\ DashParked /\ MsParked /\ TrParked /\ EldParked /\ PnParked /\ PdParked /\ RpParked /\ CpParked /\ NdParked
VmNext == VmStep /\ UNCHANGED <<dashVars, msVars, trVars, eldVars, pnVars, pdVars, rpVars, cpVars, ndVars>>
SpecVisitMap == VmInit /\ [][VmNext]_vars

\* The archive is made, then transferred by each execution.
ArchiveInit == MsStart /\ TrStart /\ DashParked /\ VmParked /\ EldParked /\ PnParked /\ PdParked /\ RpParked /\ CpParked /\ NdParked
ArchiveNext ==
    \/ MsStep /\ UNCHANGED <<dashVars, vmVars, trVars, eldVars, pnVars, pdVars, rpVars, cpVars, ndVars>>
    \/ TrStep /\ UNCHANGED <<dashVars, vmVars, msVars, eldVars, pnVars, pdVars, rpVars, cpVars, ndVars>>
SpecArchive == ArchiveInit /\ [][ArchiveNext]_vars

EldInit == EldStart /\ DashParked /\ VmParked /\ MsParked /\ TrParked /\ PnParked /\ PdParked /\ RpParked /\ CpParked /\ NdParked
EldNext == eld_call /\ UNCHANGED <<dashVars, vmVars, msVars, trVars, pnVars, pdVars, rpVars, cpVars, ndVars>>
SpecDate == EldInit /\ [][EldNext]_vars

PnInit == PnStart /\ DashParked /\ VmParked /\ MsParked /\ TrParked /\ EldParked /\ PdParked /\ RpParked /\ CpParked /\ NdParked
PnNext == PnStep /\ UNCHANGED <<dashVars, vmVars, msVars, trVars, eldVars, pdVars, rpVars, cpVars, ndVars>>
SpecPrenightTabs == PnInit /\ [][PnNext]_vars

PdInit == PdStart /\ DashParked /\ VmParked /\ MsParked /\ TrParked /\ EldParked /\ PnParked /\ RpParked /\ CpParked /\ NdParked
PdNext == PdStep /\ UNCHANGED <<dashVars, vmVars, msVars, trVars, eldVars, pnVars, rpVars, cpVars, ndVars>>
SpecPrenightInputs == PdInit /\ [][PdNext]_vars

RpInit == RpStart /\ DashParked /\ VmParked /\ MsParked /\ TrParked /\ EldParked /\ PnParked /\ PdParked /\ CpParked /\ NdParked
RpNext == RpStep /\ UNCHANGED <<dashVars, vmVars, msVars, trVars, eldVars, pnVars, pdVars, cpVars, ndVars>>
SpecRewardPlot == RpInit /\ [][RpNext]_vars
CpInit == CpStart /\ DashParked /\ VmParked /\ MsParked /\ TrParked /\ EldParked /\ PnParked /\ PdParked /\ RpParked /\ NdParked
CpNext == cp_call /\ UNCHANGED <<dashVars, vmVars, msVars, trVars, eldVars, pnVars, pdVars, rpVars, ndVars>>
SpecSampleTimes == CpInit /\ [][CpNext]_vars
NdInit == NdStart /\ DashParked /\ VmParked /\ MsParked /\ TrParked /\ EldParked /\ PnParked /\ PdParked /\ RpParked /\ CpParked
NdNext == NdStep /\ UNCHANGED <<dashVars, vmVars, msVars, trVars, eldVars, pnVars, pdVars, rpVars, cpVars>>
SpecNight == NdInit /\ [][NdNext]_vars

====
